---- MODULE Spec2Model ----
(***************************************************************************)
(* ADVECTOR chunked trajectory output writer (io_tools/OutputWriter.py).   *)
(*                                                                         *)
(* One OutputWriter (2D or 3D variant) receives chunks through             *)
(* write_output_chunk.  The model follows the control flow of the writer   *)
(* statement by statement: every netCDF4.Dataset open is a step that adds  *)
(* a handle, the end of a with block removes it, and an exception leaves   *)
(* every enclosing with block (closing its handle) and returns to the      *)
(* caller.                                                                 *)
(***************************************************************************)
EXTENDS Integers, Sequences, FiniteSets, TLC

(* ------------------------------ bounds --------------------------------- *)
\* number of calendar years on the modelled time line
NumYears == 3
\* number of whole seconds in one modelled calendar year
TicksPerYear == 3
\* largest number of time rows handed to the writer in one run, over all chunks
MaxRows == 4
\* largest number of I/O faults raised by the environment in one run
MaxFaults == 1

(* ------------------------- program constants --------------------------- *)
\* self.current_year = None
None == 0
\* calendar year of the first modelled timestamp
FirstYear == 2000
\* sub-second units per second in a datetime64 value; astype("datetime64[s]")
\* divides by it
Resolution == 2
\* np.byte is 8 bits wide
ByteBits == 8
\* netCDF fill value of a cell of an unlimited variable that was never written
Fill == -9999

SOURCEFILE_GROUP_NAME == "sourcefile"
CONFIGFILE_GROUP_NAME == "configfile"

(* ------------------------------ inputs --------------------------------- *)
\* particle ids of the run (the p_id dimension)
P == {1, 2}
\* exit codes the kernel reports
Codes == {0, 1, 2}
\* the forcing datasets handed to the constructor, in dict order
Forcings == <<"current">>
\* the basename handed to the constructor
basename == "out"

Years == FirstYear .. (FirstYear + NumYears - 1)
\* datetime64 values of the time line: whole seconds, in sub-second units
Times == {Resolution * s : s \in 0 .. (NumYears * TicksPerYear - 1)}

Max(a, b) == IF a >= b THEN a ELSE b

\* chunk.time.dt.year
YearOf(t) == FirstYear + ((t \div Resolution) \div TicksPerYear)

\* values.astype("datetime64[s]").astype(np.float64)
ToEpochSeconds(t) == t \div Resolution

\* values.astype(np.byte): two's complement wrap to 8 bits
ToByte(x) == ((x + 2 ^ (ByteBits - 1)) % (2 ^ ByteBits)) - 2 ^ (ByteBits - 1)

\* the kernel's trajectory: position of particle p at time t
Lon(p, t) == 100 + 10 * p + (t \div Resolution)
Lat(p, t) == 200 + 10 * p + (t \div Resolution)
Depth(p, t) == 0 - (300 + 10 * p + (t \div Resolution))
ReleaseDate(p) == Resolution * p

VARIABLES
    variant,        \* "2D" (OutputWriter2D) or "3D" (OutputWriter3D)
    current_year,   \* self.current_year
    paths,          \* self.paths
    files,          \* output directory: path -> container, for every .nc file
    tmp_files,      \* output directory: forcings whose {forcing}_meta_tmp.nc exists
    open,           \* container handles that are open right now
    pc,             \* position of the writer inside write_output_chunk
    chunk,          \* the chunk argument of the call in progress (or the last one)
    year,           \* loop variable of write_output_chunk
    todo,           \* forcings still to be embedded by _write_first_chunk
    start_t,        \* start_t of OutputWriter._append_chunk
    start_t3,       \* start_t of OutputWriter3D._append_chunk
    status,         \* how the last call ended: "none", "ok", "fault"
    ingested,       \* history: the time sequences of the chunks handed in so far
    faults          \* history: number of environment faults raised so far

vars == <<variant, current_year, paths, files, tmp_files, open, pc, chunk, year,
          todo, start_t, start_t3, status, ingested, faults>>


(* --------------------- containers (netCDF datasets) -------------------- *)
\* mapping[key] = value on a mapping that may not hold the key yet
Put(f, k, v) == [x \in (DOMAIN f) \cup {k} |-> IF x = k THEN v ELSE f[x]]

\* a dataset or group right after creation
EmptyContainer == [attrs |-> {}, dims |-> <<>>, vars |-> <<>>, groups |-> <<>>]

\* the containers the writer copies from hold the full declaration of their
\* dimensions (size, unlimited or fixed) and variables (datatype, dimension
\* list, attributes, data along the first dimension)

\* the particle sourcefile at self.sourcefile_path; particles are records of
\* its unlimited dimension
SourceDataset ==
    [attrs |-> {"source_title"},
     dims |-> [p_id |-> [size |-> Cardinality(P), unlimited |-> TRUE]],
     vars |-> [p_id |-> [datatype |-> "i8", dimensions |-> <<"p_id">>,
                         attrs |-> {},
                         data |-> [p \in P |-> p]],
               release_date |-> [datatype |-> "f8", dimensions |-> <<"p_id">>,
                                 attrs |-> {"units", "calendar"},
                                 data |-> [p \in P |-> ReleaseDate(p)]]],
     groups |-> <<>>]

\* the configfile at self.configfile_path (3D)
ConfigDataset ==
    [attrs |-> {"config_title"},
     dims |-> [z_hd |-> [size |-> 1, unlimited |-> FALSE]],
     vars |-> [horizontal_diffusivity |->
                    [datatype |-> "f8", dimensions |-> <<"z_hd">>,
                     attrs |-> {"units"}, data |-> <<0>>]],
     groups |-> <<>>]

\* self.forcing_meta[forcing]: xr.Dataset(ds.coords, attrs=ds.attrs), as written
\* by meta.to_netcdf
ForcingMeta(f) ==
    [attrs |-> {f},
     dims |-> [lon |-> [size |-> 1, unlimited |-> FALSE],
               lat |-> [size |-> 1, unlimited |-> FALSE]],
     vars |-> [lon |-> [datatype |-> "f8", dimensions |-> <<"lon">>,
                        attrs |-> {"units"}, data |-> <<0>>],
               lat |-> [datatype |-> "f8", dimensions |-> <<"lat">>,
                        attrs |-> {"units"}, data |-> <<0>>]],
     groups |-> <<>>]

\* the number of records of dimension d that the variables of a container hold
Records(variables, d) ==
    LET lens == {Len(variables[n].data) :
                    n \in {x \in DOMAIN variables : variables[x].dimensions[1] = d}}
    IN  IF lens = {} THEN 0 ELSE CHOOSE m \in lens : \A k \in lens : m >= k

\* a copy that creates every dimension with the fixed length len(dimension)
copy_dataset_fixed_dims(source, destination) ==
    [destination EXCEPT
        !.attrs = @ \cup source.attrs,
        !.dims = [n \in (DOMAIN @) \cup (DOMAIN source.dims) |->
                    IF n \in DOMAIN source.dims
                    THEN [size |-> source.dims[n].size, unlimited |-> FALSE]
                    ELSE @[n]],
        !.vars = [n \in (DOMAIN @) \cup (DOMAIN source.vars) |->
                    IF n \in DOMAIN source.vars THEN source.vars[n] ELSE @[n]]]

\* copy_dataset(source, destination): setncatts of the global attributes;
\* createDimension(name, len(dimension) if not dimension.isunlimited() else
\* None); createVariable(name, datatype, dimensions), setncatts and the data of
\* every variable, which grows the unlimited dimensions to the records written
copy_dataset(source, destination) ==
    LET variables ==
            [n \in (DOMAIN destination.vars) \cup (DOMAIN source.vars) |->
                IF n \in DOMAIN source.vars
                THEN [datatype |-> source.vars[n].datatype,
                      dimensions |-> source.vars[n].dimensions,
                      attrs |-> source.vars[n].attrs,
                      data |-> source.vars[n].data]
                ELSE destination.vars[n]]
    IN  [destination EXCEPT
            !.attrs = @ \cup source.attrs,
            !.dims = [n \in (DOMAIN @) \cup (DOMAIN source.dims) |->
                        IF n \in DOMAIN source.dims
                        THEN IF source.dims[n].unlimited
                             THEN [size |-> Records(variables, n), unlimited |-> TRUE]
                             ELSE [size |-> source.dims[n].size, unlimited |-> FALSE]
                        ELSE @[n]],
            !.vars = variables]

\* var[start:] = values on a variable along the unlimited dimension: cells
\* between the old end and start are fill values
WriteFrom(old, start, values) ==
    [j \in 1 .. Max(Len(old), start + Len(values)) |->
        IF j > start /\ j <= start + Len(values) THEN values[j - start]
        ELSE IF j <= Len(old) THEN old[j]
        ELSE Fill]

\* var[:, start:] = values for a (p_id, time) variable
WriteFrom2(old, start, values) ==
    [p \in P |-> WriteFrom(old[p], start, values[p])]

\* len(ds.variables["time"]): the current length of the unlimited dimension
TimeLen(ds) == ds.dims["time"]

(* ------------------------------- chunks -------------------------------- *)
\* a writer that leaves the year out of the file name
OutPath_no_year(y) == <<basename, FirstYear>>

\* f"{self.basename}_{year}.nc" in self.folder_path
OutPath(y) == <<basename, y>>

\* the xr.Dataset the kernel hands to the writer: times is chunk.time, codes
\* is chunk.exit_code; the 3D kernel adds depth and the particle statics
MakeChunk(times, codes, v) ==
    [time |-> times,
     statics |->
        IF v = "3D"
        THEN [p_id |-> [p \in P |-> p],
              release_date |-> [p \in P |-> ReleaseDate(p)],
              exit_code |-> codes,
              radius |-> [p \in P |-> 1],
              density |-> [p \in P |-> 1025],
              corey_shape_factor |-> [p \in P |-> 1]]
        ELSE [p_id |-> [p \in P |-> p],
              release_date |-> [p \in P |-> ReleaseDate(p)],
              exit_code |-> codes],
     lon |-> [p \in P |-> [j \in 1 .. Len(times) |-> Lon(p, times[j])]],
     lat |-> [p \in P |-> [j \in 1 .. Len(times) |-> Lat(p, times[j])]],
     depth |-> [p \in P |-> [j \in 1 .. Len(times) |->
                    IF v = "3D" THEN Depth(p, times[j]) ELSE 0]]]

\* a per-particle variable the writer does not expect (the kernel's chunk may
\* carry any number of variables along p_id alone): its value in call number k
Windage(p, k) == 10 * k + p

\* the chunk with or without the per-particle variable the writer does not
\* expect
WithUnexpected(c, extra, k) ==
    IF extra
    THEN [c EXCEPT !.statics = Put(@, "windage", [p \in P |-> Windage(p, k)])]
    ELSE c

\* the chunk no call has replaced yet
NoChunk == MakeChunk(<<>>, [p \in P |-> 0], "2D")

\* indices of the rows of c whose time falls in year y, in order
RowsOfYear(c, y) ==
    SelectSeq([j \in 1 .. Len(c.time) |-> j], LAMBDA j : YearOf(c.time[j]) = y)

\* rows of a sequence at the given indices
Take(seq, rows) == [k \in 1 .. Len(rows) |-> seq[rows[k]]]

\* a selection that keeps every row, whatever its year
isel_every_row(c, y) == c

\* chunk.isel({"time": chunk.time.dt.year == year})
isel_year(c, y) ==
    LET rows == RowsOfYear(c, y)
    IN  [c EXCEPT !.time = Take(c.time, rows),
                  !.lon = [p \in P |-> Take(c.lon[p], rows)],
                  !.lat = [p \in P |-> Take(c.lat[p], rows)],
                  !.depth = [p \in P |-> Take(c.depth[p], rows)]]

\* chunk.time.dt.year.values[0] and [-1]
beginning_year(c) == YearOf(c.time[1])
end_year(c) == YearOf(c.time[Len(c.time)])

\* chunk_year of the loop iteration in progress
chunk_year == isel_year(chunk, year)

\* the time the kernel's next chunk starts at when it carries on after the
\* chunks handed in so far
NextTime(history) ==
    IF history = <<>> THEN 0
    ELSE LET last == history[Len(history)]
         IN  (last[Len(last)] \div Resolution) + 1

\* the chunks the kernel can hand in: it carries on where the last chunk
\* ended, or starts again at the beginning of the time line (out of order), and
\* advances by a fixed step of one second or of more than a year
Steps == {1, TicksPerYear + 1}
RECURSIVE TotalRows(_)
TotalRows(history) ==
    IF history = <<>> THEN 0 ELSE Len(Head(history)) + TotalRows(Tail(history))
TimeSeqs(history) ==
    {[j \in 1 .. n |-> Resolution * (s + (j - 1) * d)] :
        <<s, n, d>> \in
            {x \in {0, NextTime(history)} \X (1 .. MaxRows - TotalRows(history)) \X Steps :
                /\ x[1] + (x[2] - 1) * x[3] <= NumYears * TicksPerYear - 1
                /\ (x[2] = 1 => x[3] = 1)}}

\* chunk.exit_code: the first particle reports any code, the others none
ExitCodeVectors == {v \in [P -> Codes] : \A p \in P \ {1} : v[p] = 0}


(* --------------------------- writer state ------------------------------ *)
Init ==
    /\ variant \in {"2D", "3D"}
    /\ current_year = None
    /\ paths = <<>>
    /\ files = <<>>
    /\ tmp_files = {}
    /\ open = {}
    /\ pc = "idle"
    /\ chunk = NoChunk
    /\ year = None
    /\ todo = <<>>
    /\ start_t = 0
    /\ start_t3 = 0
    /\ status = "none"
    /\ ingested = <<>>
    /\ faults = 0

\* a writer whose file operations target the first path it recorded
LastPath_first == paths[1]

\* self.paths[-1]
LastPath == paths[Len(paths)]

\* the container at self.paths[-1]
Ds == files[LastPath]

\* the writer's own fields and the history, which no step inside a call changes
Writer == <<variant, current_year, paths, chunk, ingested>>

\* an exception that leaves the handles of the enclosing with blocks open
Raise_keeps_handles ==
    /\ open' = open
    /\ pc' = "idle"
    /\ status' = "fault"

\* an exception: every enclosing with block closes its handle and the call
\* returns to the caller; nothing else is undone
Raise ==
    /\ open' = {}
    /\ pc' = "idle"
    /\ status' = "fault"

\* the end of one iteration of the loop of write_output_chunk
NextYear ==
    /\ year' = year + 1
    /\ pc' = "loop"

\* a _set_current_year that records the new path in front of the others
set_current_year_prepends(y) ==
    /\ current_year' = y
    /\ paths' = <<OutPath(y)>> \o paths

\* _set_current_year(year)
set_current_year(y) ==
    /\ current_year' = y
    /\ paths' = Append(paths, OutPath(y))

(* ------------------------- write_output_chunk -------------------------- *)
\* the driver calls write_output_chunk(chunk)
WriteOutputChunk(times, codes, extra) ==
    /\ pc = "idle"
    /\ chunk' = WithUnexpected(MakeChunk(times, codes, variant), extra,
                               Len(ingested) + 1)
    /\ year' = YearOf(times[1])
    /\ pc' = "loop"
    /\ status' = "running"
    /\ ingested' = Append(ingested, times)
    /\ UNCHANGED <<variant, current_year, paths, files, tmp_files, open, todo,
                   start_t, start_t3, faults>>

\* if year != self.current_year: self._set_current_year(year)
LoopNewYear ==
    /\ pc = "loop"
    /\ year <= end_year(chunk)
    /\ year # current_year
    /\ set_current_year(year)
    /\ pc' = "wfc_open"
    /\ UNCHANGED <<variant, files, tmp_files, open, chunk, year, todo, start_t,
                   start_t3, status, ingested, faults>>

\* else: self._append_chunk(chunk_year)
LoopSameYear ==
    /\ pc = "loop"
    /\ year <= end_year(chunk)
    /\ year = current_year
    /\ pc' = IF variant = "3D" THEN "app3_open" ELSE "app_open"
    /\ UNCHANGED <<variant, current_year, paths, files, tmp_files, open, chunk,
                   year, todo, start_t, start_t3, status, ingested, faults>>

\* range(beginning_year, end_year + 1) is exhausted: the call returns
LoopReturn ==
    /\ pc = "loop"
    /\ year > end_year(chunk)
    /\ pc' = "idle"
    /\ status' = "ok"
    /\ UNCHANGED <<variant, current_year, paths, files, tmp_files, open, chunk,
                   year, todo, start_t, start_t3, ingested, faults>>

(* ------------------- OutputWriter._write_first_chunk ------------------- *)
\* with netCDF4.Dataset(self.paths[-1], mode="w") as ds: mode "w" creates the
\* file, or truncates the one that is there; ds.createGroup("sourcefile")
WfcOpen ==
    /\ pc = "wfc_open"
    /\ files' = Put(files, LastPath,
                    [EmptyContainer EXCEPT
                        !.groups = Put(@, SOURCEFILE_GROUP_NAME, EmptyContainer)])
    /\ open' = open \cup {"ds"}
    /\ pc' = "wfc_source_open"
    /\ UNCHANGED <<Writer, tmp_files, year, todo, start_t, start_t3, status, faults>>

\* with netCDF4.Dataset(self.sourcefile_path, mode="r") as sourcefile
WfcSourceOpen ==
    /\ pc = "wfc_source_open"
    /\ open' = open \cup {"sourcefile"}
    /\ pc' = "wfc_source_copy"
    /\ UNCHANGED <<Writer, files, tmp_files, year, todo, start_t, start_t3, status,
                   faults>>

\* a copy of the sourcefile that leaves its handle open
WfcSourceCopy_keeps_open ==
    /\ pc = "wfc_source_copy"
    /\ files' = [files EXCEPT ![LastPath].groups[SOURCEFILE_GROUP_NAME] =
                    copy_dataset(SourceDataset, @)]
    /\ todo' = Forcings
    /\ pc' = "wfc_meta"
    /\ UNCHANGED <<Writer, tmp_files, open, year, start_t, start_t3, status, faults>>

\* copy_dataset(sourcefile, sourcefile_group), and the inner with block ends
WfcSourceCopy ==
    /\ pc = "wfc_source_copy"
    /\ files' = [files EXCEPT ![LastPath].groups[SOURCEFILE_GROUP_NAME] =
                    copy_dataset(SourceDataset, @)]
    /\ open' = open \ {"sourcefile"}
    /\ todo' = Forcings
    /\ pc' = "wfc_meta"
    /\ UNCHANGED <<Writer, tmp_files, year, start_t, start_t3, status, faults>>

\* ds.createGroup(forcing.name), its description attribute, and
\* meta.to_netcdf(tmp_meta_path)
WfcMetaToNetcdf ==
    /\ pc = "wfc_meta"
    /\ todo # <<>>
    /\ files' = [files EXCEPT ![LastPath].groups =
                    Put(@, Head(todo),
                        [EmptyContainer EXCEPT !.attrs = {"meta_group_description"}])]
    /\ tmp_files' = tmp_files \cup {Head(todo)}
    /\ pc' = "wfc_meta_open"
    /\ UNCHANGED <<Writer, open, year, todo, start_t, start_t3, status, faults>>

\* with netCDF4.Dataset(tmp_meta_path, mode="r") as netcdf4_meta
WfcMetaOpen ==
    /\ pc = "wfc_meta_open"
    /\ open' = open \cup {"netcdf4_meta"}
    /\ pc' = "wfc_meta_copy"
    /\ UNCHANGED <<Writer, files, tmp_files, year, todo, start_t, start_t3, status,
                   faults>>

\* copy_dataset(netcdf4_meta, forcing_meta_group), and the inner with block ends
WfcMetaCopy ==
    /\ pc = "wfc_meta_copy"
    /\ files' = [files EXCEPT ![LastPath].groups[Head(todo)] =
                    copy_dataset(ForcingMeta(Head(todo)), @)]
    /\ open' = open \ {"netcdf4_meta"}
    /\ pc' = "wfc_meta_remove"
    /\ UNCHANGED <<Writer, tmp_files, year, todo, start_t, start_t3, status, faults>>

\* os.remove(tmp_meta_path)
WfcMetaRemove ==
    /\ pc = "wfc_meta_remove"
    /\ tmp_files' = tmp_files \ {Head(todo)}
    /\ todo' = Tail(todo)
    /\ pc' = "wfc_meta"
    /\ UNCHANGED <<Writer, files, open, year, start_t, start_t3, status, faults>>

\* the root group of a new container: global attributes, the dimensions, the
\* per-particle variables and the first slice of the growing variables
RootGroup(ds, c) ==
    [ds EXCEPT
        !.attrs = @ \cup {"institution", "source", "arguments"},
        !.dims = Put(Put(@, "p_id", Cardinality(DOMAIN c.statics["p_id"])),
                     "time", Len(c.time)),
        !.vars =
            Put(Put(Put(Put(Put(Put(@,
                "p_id", c.statics["p_id"]),
                "release_date",
                    [p \in P |-> ToEpochSeconds(c.statics["release_date"][p])]),
                "exit_code", [p \in P |-> ToByte(c.statics["exit_code"][p])]),
                "time", [j \in 1 .. Len(c.time) |-> ToEpochSeconds(c.time[j])]),
                "lon", c.lon),
                "lat", c.lat)]

\* the rest of the outer with block of _write_first_chunk, and its end
WfcRoot ==
    /\ pc = "wfc_meta"
    /\ todo = <<>>
    /\ files' = [files EXCEPT ![LastPath] = RootGroup(@, chunk_year)]
    /\ open' = open \ {"ds"}
    /\ pc' = IF variant = "3D" THEN "wfc3_open" ELSE "wfc2_open"
    /\ UNCHANGED <<Writer, tmp_files, year, todo, start_t, start_t3, status, faults>>


(* ------------------ OutputWriter2D._write_first_chunk ------------------ *)
\* with netCDF4.Dataset(self.paths[-1], mode="a") as ds
Wfc2Open ==
    /\ pc = "wfc2_open"
    /\ open' = open \cup {"ds"}
    /\ pc' = "wfc2_attrs"
    /\ UNCHANGED <<Writer, files, tmp_files, year, todo, start_t, start_t3, status,
                   faults>>

\* ds.title, ds.description, and the with block ends
Wfc2Attrs ==
    /\ pc = "wfc2_attrs"
    /\ files' = [files EXCEPT ![LastPath].attrs = @ \cup {"title", "description"}]
    /\ open' = open \ {"ds"}
    /\ pc' = "cuv_open"
    /\ UNCHANGED <<Writer, tmp_files, year, todo, start_t, start_t3, status, faults>>

(* ------------------ OutputWriter3D._write_first_chunk ------------------ *)
\* with netCDF4.Dataset(self.paths[-1], mode="a") as ds;
\* ds.createGroup("configfile")
Wfc3Open ==
    /\ pc = "wfc3_open"
    /\ files' = [files EXCEPT ![LastPath].groups =
                    Put(@, CONFIGFILE_GROUP_NAME, EmptyContainer)]
    /\ open' = open \cup {"ds"}
    /\ pc' = "wfc3_config_open"
    /\ UNCHANGED <<Writer, tmp_files, year, todo, start_t, start_t3, status, faults>>

\* with netCDF4.Dataset(self.configfile_path, mode="r") as configfile
Wfc3ConfigOpen ==
    /\ pc = "wfc3_config_open"
    /\ open' = open \cup {"configfile"}
    /\ pc' = "wfc3_config_copy"
    /\ UNCHANGED <<Writer, files, tmp_files, year, todo, start_t, start_t3, status,
                   faults>>

\* copy_dataset(configfile, config_group), and the inner with block ends
Wfc3ConfigCopy ==
    /\ pc = "wfc3_config_copy"
    /\ files' = [files EXCEPT ![LastPath].groups[CONFIGFILE_GROUP_NAME] =
                    copy_dataset(ConfigDataset, @)]
    /\ open' = open \ {"configfile"}
    /\ pc' = "wfc3_root"
    /\ UNCHANGED <<Writer, tmp_files, year, todo, start_t, start_t3, status, faults>>

\* the 3D additions to the root group: title, description, the particle
\* statics and the first slice of depth
RootGroup3D(ds, c) ==
    [ds EXCEPT
        !.attrs = @ \cup {"title", "description"},
        !.vars =
            Put(Put(Put(Put(@,
                "radius", c.statics["radius"]),
                "density", c.statics["density"]),
                "corey_shape_factor", c.statics["corey_shape_factor"]),
                "depth", c.depth)]

\* the rest of the with block of OutputWriter3D._write_first_chunk, and its end
Wfc3Root ==
    /\ pc = "wfc3_root"
    /\ files' = [files EXCEPT ![LastPath] = RootGroup3D(@, chunk_year)]
    /\ open' = open \ {"ds"}
    /\ pc' = "cuv_open"
    /\ UNCHANGED <<Writer, tmp_files, year, todo, start_t, start_t3, status, faults>>

(* ---------------------- _copy_unexpected_variables --------------------- *)
\* with netCDF4.Dataset(self.paths[-1], mode="a") as ds
CuvOpen ==
    /\ pc = "cuv_open"
    /\ open' = open \cup {"ds"}
    /\ pc' = "cuv_copy"
    /\ UNCHANGED <<Writer, files, tmp_files, year, todo, start_t, start_t3, status,
                   faults>>

\* a propagation that writes every per-particle variable of the chunk, the
\* ones the container defines already included
CopyUnexpected_overwrites(ds, c) ==
    [ds EXCEPT !.vars =
        [n \in (DOMAIN @) \cup (DOMAIN c.statics) |->
            IF n \in DOMAIN c.statics THEN c.statics[n] ELSE @[n]]]

\* every variable of the chunk along p_id alone that ds does not define yet is
\* created with the chunk's values
CopyUnexpected(ds, c) ==
    [ds EXCEPT !.vars =
        [n \in (DOMAIN @) \cup (DOMAIN c.statics) |->
            IF n \in DOMAIN @ THEN @[n] ELSE c.statics[n]]]

\* the loop of _copy_unexpected_variables, and the with block ends
CuvCopy ==
    /\ pc = "cuv_copy"
    /\ files' = [files EXCEPT ![LastPath] = CopyUnexpected(@, chunk_year)]
    /\ open' = open \ {"ds"}
    /\ NextYear
    /\ UNCHANGED <<Writer, tmp_files, todo, start_t, start_t3, status, faults>>

(* --------------------- OutputWriter._append_chunk ---------------------- *)
\* with netCDF4.Dataset(self.paths[-1], mode="a") as ds
AppOpen ==
    /\ pc = "app_open"
    /\ open' = open \cup {"ds"}
    /\ pc' = "app_time"
    /\ UNCHANGED <<Writer, files, tmp_files, year, todo, start_t, start_t3, status,
                   faults>>

\* an append that writes time[:] = values, over the rows already stored
AppendTime_from_zero(ds, start, c) ==
    [ds EXCEPT
        !.vars["time"] = WriteFrom(@, 0,
                            [j \in 1 .. Len(c.time) |-> ToEpochSeconds(c.time[j])]),
        !.dims["time"] = Max(@, Len(c.time))]

\* time[start:] = values, which grows the unlimited dimension
AppendTime(ds, start, c) ==
    [ds EXCEPT
        !.vars["time"] = WriteFrom(@, start,
                            [j \in 1 .. Len(c.time) |-> ToEpochSeconds(c.time[j])]),
        !.dims["time"] = Max(@, start + Len(c.time))]

\* time = ds.variables["time"]; start_t = len(time); time[start_t:] = ...
\* (KeyError when the container has no time variable)
AppTime ==
    /\ pc = "app_time"
    /\ IF "time" \in DOMAIN Ds.vars
       THEN /\ start_t' = TimeLen(Ds)
            /\ files' = [files EXCEPT ![LastPath] =
                            AppendTime(@, TimeLen(Ds), chunk_year)]
            /\ pc' = "app_lon"
            /\ UNCHANGED <<open, status>>
       ELSE /\ Raise
            /\ UNCHANGED <<files, start_t>>
    /\ UNCHANGED <<Writer, tmp_files, year, todo, start_t3, faults>>

\* lon[:, start_t:] = chunk.lon.values
AppendLon(ds, start, c) ==
    [ds EXCEPT !.vars["lon"] = WriteFrom2(@, start, c.lon)]

AppLon ==
    /\ pc = "app_lon"
    /\ files' = [files EXCEPT ![LastPath] = AppendLon(@, start_t, chunk_year)]
    /\ pc' = "app_lat"
    /\ UNCHANGED <<Writer, tmp_files, open, year, todo, start_t, start_t3, status,
                   faults>>

\* an append of lat that starts one column before the end of the stored rows
AppendLat_one_early(ds, start, c) ==
    [ds EXCEPT !.vars["lat"] = WriteFrom2(@, start - 1, c.lat)]

\* lat[:, start_t:] = chunk.lat.values
AppendLat(ds, start, c) ==
    [ds EXCEPT !.vars["lat"] = WriteFrom2(@, start, c.lat)]

AppLat ==
    /\ pc = "app_lat"
    /\ files' = [files EXCEPT ![LastPath] = AppendLat(@, start_t, chunk_year)]
    /\ pc' = "app_exit_code"
    /\ UNCHANGED <<Writer, tmp_files, open, year, todo, start_t, start_t3, status,
                   faults>>

\* an append that keeps a stored non-zero code and writes the others
OverwriteExitCode_keep_nonzero(ds, c) ==
    [ds EXCEPT !.vars["exit_code"] =
        [p \in P |-> IF @[p] # 0 THEN @[p] ELSE ToByte(c.statics["exit_code"][p])]]

\* an append that refreshes every per-particle variable of the chunk, and
\* creates the ones the container lacks
OverwriteExitCode_and_statics(ds, c) ==
    [ds EXCEPT !.vars =
        [n \in (DOMAIN @) \cup (DOMAIN c.statics) |->
            IF n = "exit_code" THEN [p \in P |-> ToByte(c.statics["exit_code"][p])]
            ELSE IF n \in DOMAIN c.statics THEN c.statics[n]
            ELSE @[n]]]

\* exit_code[:] = chunk.exit_code.values (stored as np.byte)
OverwriteExitCode(ds, c) ==
    [ds EXCEPT !.vars["exit_code"] = [p \in P |-> ToByte(c.statics["exit_code"][p])]]

\* the last statement of _append_chunk, and the with block ends
AppExitCode ==
    /\ pc = "app_exit_code"
    /\ files' = [files EXCEPT ![LastPath] = OverwriteExitCode(@, chunk_year)]
    /\ open' = open \ {"ds"}
    /\ IF variant = "3D"
       THEN pc' = "app3_open2" /\ UNCHANGED year
       ELSE NextYear
    /\ UNCHANGED <<Writer, tmp_files, todo, start_t, start_t3, status, faults>>

(* -------------------- OutputWriter3D._append_chunk --------------------- *)
\* with netCDF4.Dataset(self.paths[-1], mode="a") as ds (the first one)
App3Open ==
    /\ pc = "app3_open"
    /\ open' = open \cup {"ds"}
    /\ pc' = "app3_len"
    /\ UNCHANGED <<Writer, files, tmp_files, year, todo, start_t, start_t3, status,
                   faults>>

\* start_t = len(ds.variables["time"]), and the with block ends
\* (KeyError when the container has no time variable)
App3Len ==
    /\ pc = "app3_len"
    /\ IF "time" \in DOMAIN Ds.vars
       THEN /\ start_t3' = TimeLen(Ds)
            /\ open' = open \ {"ds"}
            /\ pc' = "app_open"
            /\ UNCHANGED status
       ELSE /\ Raise
            /\ UNCHANGED start_t3
    /\ UNCHANGED <<Writer, files, tmp_files, year, todo, start_t, faults>>

\* with netCDF4.Dataset(self.paths[-1], mode="a") as ds (the second one)
App3Open2 ==
    /\ pc = "app3_open2"
    /\ open' = open \cup {"ds"}
    /\ pc' = "app3_depth"
    /\ UNCHANGED <<Writer, files, tmp_files, year, todo, start_t, start_t3, status,
                   faults>>

\* a depth write whose offset is the length time has after the base append
AppendDepth_at_post_length(ds, start, c) ==
    [ds EXCEPT !.vars["depth"] = WriteFrom2(@, TimeLen(ds), c.depth)]

\* depth[:, start_t:] = chunk.depth.values
AppendDepth(ds, start, c) ==
    [ds EXCEPT !.vars["depth"] = WriteFrom2(@, start, c.depth)]

\* depth = ds.variables['depth'] (KeyError when the container has none), the
\* write, and the with block ends
App3Depth ==
    /\ pc = "app3_depth"
    /\ IF "depth" \in DOMAIN Ds.vars
       THEN /\ files' = [files EXCEPT ![LastPath] =
                            AppendDepth(@, start_t3, chunk_year)]
            /\ open' = open \ {"ds"}
            /\ NextYear
            /\ UNCHANGED status
       ELSE /\ Raise
            /\ UNCHANGED <<files, year>>
    /\ UNCHANGED <<Writer, tmp_files, todo, start_t, start_t3, faults>>

(* ------------------------------ faults --------------------------------- *)
\* the statements at which the environment can make the writer raise: opening
\* a provenance or transient container that is missing or unreadable, copying
\* out of one, and writing to the output container during an append
FaultPoints ==
    {"wfc_source_open", "wfc_source_copy", "wfc_meta_open", "wfc_meta_copy",
     "wfc3_config_open", "wfc3_config_copy", "app_lon", "app_lat",
     "app_exit_code", "app3_depth"}

\* a statement raises (FileNotFoundError, OSError, ...)
Fault ==
    /\ pc \in FaultPoints
    /\ faults < MaxFaults
    /\ faults' = faults + 1
    /\ Raise
    /\ UNCHANGED <<Writer, files, tmp_files, year, todo, start_t, start_t3>>

(* --------------------------- specification ----------------------------- *)
Next ==
    \/ \E times \in TimeSeqs(ingested), codes \in ExitCodeVectors, extra \in BOOLEAN :
            WriteOutputChunk(times, codes, extra)
    \/ LoopNewYear
    \/ LoopSameYear
    \/ LoopReturn
    \/ WfcOpen
    \/ WfcSourceOpen
    \/ WfcSourceCopy
    \/ WfcMetaToNetcdf
    \/ WfcMetaOpen
    \/ WfcMetaCopy
    \/ WfcMetaRemove
    \/ WfcRoot
    \/ Wfc2Open
    \/ Wfc2Attrs
    \/ Wfc3Open
    \/ Wfc3ConfigOpen
    \/ Wfc3ConfigCopy
    \/ Wfc3Root
    \/ CuvOpen
    \/ CuvCopy
    \/ AppOpen
    \/ AppTime
    \/ AppLon
    \/ AppLat
    \/ AppExitCode
    \/ App3Open
    \/ App3Len
    \/ App3Open2
    \/ App3Depth
    \/ Fault

Spec == Init /\ [][Next]_vars


(* ----------------------- history of a run ------------------------------ *)
\* the calendar years in which a timestamp handed to the writer falls
SeenYears(history) ==
    UNION {{YearOf(history[i][j]) : j \in 1 .. Len(history[i])} :
            i \in 1 .. Len(history)}

\* the years of range(beginning_year, end_year + 1), over the chunks handed in
SpannedYears(history) ==
    UNION {YearOf(history[i][1]) .. YearOf(history[i][Len(history[i])]) :
            i \in 1 .. Len(history)}

\* no chunk starts in an earlier year than the one the chunk before it ended in
NonDecreasingYears(history) ==
    \A i \in 1 .. Len(history) - 1 :
        YearOf(history[i + 1][1]) >= YearOf(history[i][Len(history[i])])

\* every call so far returned normally
AllCompleted == pc = "idle" /\ status # "fault" /\ faults = 0

\* the years that have a file in the output directory
FileYears == {y \in Years : OutPath(y) \in DOMAIN files}

(* ------------------------------ claims --------------------------------- *)
\* C1 (as claimed): after calls with non-decreasing years there is exactly one
\* output file per calendar year in which an ingested timestamp falls, and no
\* file for any other year.
C1_FilePerSeenYear ==
    (AllCompleted /\ NonDecreasingYears(ingested)) =>
        /\ DOMAIN files = {OutPath(y) : y \in SeenYears(ingested)}
        /\ Len(paths) = Cardinality(SeenYears(ingested))

\* C1 (amended): after calls with non-decreasing years that all returned
\* normally, the output files are exactly one per year of the inclusive range
\* from the first to the last timestamp's year of each chunk, named
\* {basename}_{year}.nc, and self.paths lists them once each in ascending year.
C1_FilePerSpannedYear ==
    (AllCompleted /\ NonDecreasingYears(ingested)) =>
        /\ DOMAIN files = {<<basename, y>> : y \in SpannedYears(ingested)}
        /\ Len(paths) = Cardinality(SpannedYears(ingested))
        /\ \A i \in 1 .. Len(paths) : paths[i] \in DOMAIN files
        /\ \A i \in 1 .. Len(paths) - 1 : paths[i][2] < paths[i + 1][2]

\* C1 witness: two chunks were ingested in order, three years have a file and
\* one of them has no timestamp in it
C1_Witness ==
    /\ AllCompleted
    /\ NonDecreasingYears(ingested)
    /\ Len(ingested) = 2
    /\ Cardinality(FileYears) = 3
    /\ Cardinality(SeenYears(ingested)) = 2

\* C2 (as claimed): a loop iteration whose year is lower than the writer's
\* current year is rejected with a fault and leaves self.paths and every file
\* as they were.
C2_RevisitRejected ==
    [][(/\ pc = "loop"
        /\ year <= end_year(chunk)
        /\ current_year # None
        /\ year < current_year)
       => (/\ pc' = "idle"
           /\ status' = "fault"
           /\ paths' = paths
           /\ files' = files)]_vars

\* C3: after chunks that all fall in one year were ingested, the time dimension
\* and the stored time, lon and lat (and depth in 3D) are as long as the sum of
\* the chunk sizes.
C3_LengthIsSum ==
    (AllCompleted /\ Cardinality(SeenYears(ingested)) = 1) =>
        \A y \in SeenYears(ingested) :
            /\ OutPath(y) \in DOMAIN files
            /\ LET ds == files[OutPath(y)]
                   n == TotalRows(ingested)
               IN  /\ TimeLen(ds) = n
                   /\ Len(ds.vars["time"]) = n
                   /\ \A p \in P : Len(ds.vars["lon"][p]) = n
                   /\ \A p \in P : Len(ds.vars["lat"][p]) = n
                   /\ variant = "3D" => \A p \in P : Len(ds.vars["depth"][p]) = n

\* C3 witness: three chunks of one year, of sizes that differ, were ingested
C3_Witness ==
    /\ AllCompleted
    /\ Cardinality(SeenYears(ingested)) = 1
    /\ Len(ingested) = 3
    /\ \E i, j \in 1 .. Len(ingested) : Len(ingested[i]) # Len(ingested[j])
    /\ variant = "3D"


\* the timestamps of year y handed to the writer so far, in ingestion order
RECURSIVE IngestedRows(_, _)
IngestedRows(history, y) ==
    IF history = <<>> THEN <<>>
    ELSE SelectSeq(Head(history), LAMBDA t : YearOf(t) = y)
            \o IngestedRows(Tail(history), y)

\* the container ds holds, from index first + 1 on, exactly the rows of the
\* timestamps rows: their time, and each particle's lon and lat (depth in 3D)
HoldsRows(ds, first, rows) ==
    /\ {"time", "lon", "lat"} \subseteq DOMAIN ds.vars
    /\ Len(ds.vars["time"]) = first + Len(rows)
    /\ \A j \in 1 .. Len(rows) :
        /\ ds.vars["time"][first + j] * Resolution = rows[j]
        /\ \A p \in P :
            /\ Len(ds.vars["lon"][p]) = first + Len(rows)
            /\ Len(ds.vars["lat"][p]) = first + Len(rows)
            /\ ds.vars["lon"][p][first + j] = Lon(p, rows[j])
            /\ ds.vars["lat"][p][first + j] = Lat(p, rows[j])
            /\ variant = "3D" =>
                /\ "depth" \in DOMAIN ds.vars
                /\ Len(ds.vars["depth"][p]) = first + Len(rows)
                /\ ds.vars["depth"][p][first + j] = Depth(p, rows[j])

\* C4 (as claimed): after any sequence of ingests every year file holds the
\* concatenation, in ingestion order, of the slices written for its year.
C4_Concatenation ==
    AllCompleted =>
        \A y \in FileYears : HoldsRows(files[OutPath(y)], 0, IngestedRows(ingested, y))

\* the statement of C4 holds of every run whose chunks come in non-decreasing
\* years: only a revisited year loses rows
C4_ConcatenationInOrder ==
    (AllCompleted /\ NonDecreasingYears(ingested)) =>
        \A y \in FileYears : HoldsRows(files[OutPath(y)], 0, IngestedRows(ingested, y))

\* the rows of the chunk in progress that fall in year y
ChunkRows(y) == SelectSeq(chunk.time, LAMBDA t : YearOf(t) = y)

\* C5: a chunk is split by year. Every year of the chunk that the loop has
\* passed has its rows, in the chunk's order, at the end of that year's file
\* (so the rows of a year are in place before the next year's file is
\* created), and every row stored in a file falls in the file's own year.
C5_SplitByYear ==
    /\ (status \in {"running", "ok"} /\ chunk.time # <<>>) =>
        \A y \in beginning_year(chunk) .. (year - 1) :
            /\ <<basename, y>> \in DOMAIN files
            /\ "time" \in DOMAIN files[<<basename, y>>].vars
            /\ Len(files[<<basename, y>>].vars["time"]) >= Len(ChunkRows(y))
            /\ HoldsRows(files[<<basename, y>>],
                         Len(files[<<basename, y>>].vars["time"]) - Len(ChunkRows(y)),
                         ChunkRows(y))
    /\ \A y \in FileYears :
        "time" \in DOMAIN files[OutPath(y)].vars =>
            \A j \in 1 .. Len(files[OutPath(y)].vars["time"]) :
                YearOf(files[OutPath(y)].vars["time"][j] * Resolution) = y

\* C5 witness: a chunk that spans a year boundary was ingested; the rows of its
\* first year were appended to the file that was open, the next year's file
\* was created
C5_Witness ==
    /\ pc = "idle"
    /\ status = "ok"
    /\ Len(ingested) = 2
    /\ end_year(chunk) = beginning_year(chunk) + 1
    /\ Len(files[OutPath(beginning_year(chunk))].vars["time"])
            > Len(ChunkRows(beginning_year(chunk)))
    /\ Len(files[OutPath(end_year(chunk))].vars["time"]) = Len(ChunkRows(end_year(chunk)))

\* C6 (as claimed): a non-zero exit_code stored in a file never changes.
C6_StoredCodeNeverChanges ==
    [][\A y \in Years :
        (/\ OutPath(y) \in DOMAIN files
         /\ OutPath(y) \in DOMAIN files'
         /\ "exit_code" \in DOMAIN files[OutPath(y)].vars
         /\ "exit_code" \in DOMAIN files'[OutPath(y)].vars)
        => \A p \in P :
            files[OutPath(y)].vars["exit_code"][p] # 0 =>
                files'[OutPath(y)].vars["exit_code"][p]
                    = files[OutPath(y)].vars["exit_code"][p]]_vars

\* C7: whenever a year of a chunk has been written (first chunk or append), and
\* so after every call that returns, the exit_code of the current year's file
\* is the exit_code of that chunk, for every particle.
C7_ExitCodeIsLatest ==
    (/\ status \in {"running", "ok"}
     /\ pc \in {"loop", "idle"}
     /\ chunk.time # <<>>
     /\ year > beginning_year(chunk)) =>
        /\ LastPath = <<basename, current_year>>
        /\ "exit_code" \in DOMAIN Ds.vars
        /\ \A p \in P : Ds.vars["exit_code"][p] = chunk.statics["exit_code"][p]

\* C7 witness: a call has returned whose chunk was appended to the current
\* year's file and carries a non-zero code
C7_Witness ==
    /\ pc = "idle"
    /\ status = "ok"
    /\ Len(ingested) = 2
    /\ beginning_year(chunk) = end_year(chunk)
    /\ Len(Ds.vars["time"]) > Len(chunk.time)
    /\ chunk.statics["exit_code"][1] = 2

\* C8 (as claimed): whenever the writer is not inside a call, no transient
\* {forcing}_meta_tmp.nc file is in the output directory.
C8_NoTransientLeft == pc = "idle" => tmp_files = {}

\* C9 (as claimed): when opening or copying the source or config container
\* faults, no output file of the year being initialized is left on disk.
C9_NoPartialOutput ==
    [][(/\ pc \in {"wfc_source_open", "wfc_source_copy",
                   "wfc3_config_open", "wfc3_config_copy"}
        /\ status' = "fault")
       => LastPath \notin DOMAIN files']_vars

\* C10 (as claimed): at most one container handle is open at any time.
C10_OneHandle == Cardinality(open) <= 1

\* C10 (amended): at most two container handles are open at any time: the
\* output container, and with it at most one container that is copied into it.
C10_TwoHandles ==
    /\ Cardinality(open) <= 2
    /\ open # {} => "ds" \in open

\* C10 witness: the output container and a second container are open together
C10_Witness == Cardinality(open) = 2 /\ "netcdf4_meta" \in open

(* C11: no container handle is held across chunk boundaries: whenever
   write_output_chunk has returned, normally or by an exception, every
   handle it opened is closed, so the set of open handles is empty between
   two calls. *)
C11_NoHandleBetweenCalls == pc = "idle" => open = {}

\* a call has returned by an exception raised while the year's file and the
\* temporary forcing file were both open
C11_Witness ==
    /\ pc = "idle"
    /\ status = "fault"
    /\ tmp_files # {}
    /\ open = {}

\* var[j] as a reader sees it: a cell never written holds the fill value
Cell(v, j) == IF j <= Len(v) THEN v[j] ELSE Fill

\* the positions of the writer inside _append_chunk (2D and 3D)
AppendPcs ==
    {"app3_open", "app3_len", "app_open", "app_time", "app_lon", "app_lat",
     "app_exit_code", "app3_open2", "app3_depth"}

\* the length of time when the append in progress began
PreAppendLen ==
    IF "time" \notin DOMAIN Ds.vars THEN 0
    ELSE IF pc \in {"app3_open", "app3_len"} THEN TimeLen(Ds)
    ELSE IF variant = "3D" THEN start_t3
    ELSE IF pc \in {"app_open", "app_time"} THEN TimeLen(Ds)
    ELSE start_t

\* what one step taken inside _append_chunk leaves alone
AppendFrameStep ==
    pc \in AppendPcs =>
        /\ DOMAIN files' = DOMAIN files
        /\ tmp_files' = tmp_files
        /\ \A k \in DOMAIN files \ {LastPath} : files'[k] = files[k]
        /\ LET old == files[LastPath]
               new == files'[LastPath]
               n0 == PreAppendLen
           IN  /\ new.attrs = old.attrs
               /\ new.groups = old.groups
               /\ DOMAIN new.dims = DOMAIN old.dims
               /\ \A d \in DOMAIN old.dims \ {"time"} : new.dims[d] = old.dims[d]
               /\ DOMAIN new.vars = DOMAIN old.vars
               /\ \A n \in DOMAIN old.vars \ {"time", "lon", "lat", "depth", "exit_code"} :
                    new.vars[n] = old.vars[n]
               /\ "time" \in DOMAIN old.vars =>
                    \A j \in 1 .. n0 : Cell(new.vars["time"], j) = Cell(old.vars["time"], j)
               /\ \A n \in {"lon", "lat", "depth"} \cap DOMAIN old.vars :
                    \A p \in P : \A j \in 1 .. n0 :
                        Cell(new.vars[n][p], j) = Cell(old.vars[n][p], j)

(* C12: an append to the current year's file changes only exit_code and the
   entries of time, lon, lat (and depth in 3D) at time indices at or beyond
   the length time had when the append began; no file is created or removed,
   every other file, the global attributes, the groups, the dimensions other
   than time, every other variable (p_id, release_date, the 3D statics) and
   every earlier time/lon/lat/depth entry are unchanged by every step of the
   append, an interrupting exception included. *)
C12_AppendFrame == [][AppendFrameStep]_vars

\* an append to a file that held rows was interrupted after it wrote time and
\* lon: lat is shorter than time, and its stored rows are still there
C12_Witness ==
    /\ pc = "idle"
    /\ status = "fault"
    /\ paths # <<>>
    /\ LastPath \in DOMAIN files
    /\ {"time", "lon", "lat"} \subseteq DOMAIN Ds.vars
    /\ \E p \in P :
        /\ Len(Ds.vars["lat"][p]) > 0
        /\ Len(Ds.vars["lat"][p]) < TimeLen(Ds)
        /\ Len(Ds.vars["lon"][p]) = TimeLen(Ds)

\* the per-particle variables initialization defines before propagation runs
InitializedStatics ==
    {"p_id", "release_date", "exit_code"} \cup
        (IF variant = "3D" THEN {"radius", "density", "corey_shape_factor"} ELSE {})

\* what the step that runs _copy_unexpected_variables does to the year's file
PropagationStep ==
    (pc = "cuv_copy" /\ pc' = "loop") =>
        LET old == files[LastPath]
            new == files'[LastPath]
        IN  /\ InitializedStatics \subseteq DOMAIN old.vars
            /\ DOMAIN new.vars = (DOMAIN old.vars) \cup (DOMAIN chunk.statics)
            /\ \A n \in DOMAIN old.vars : new.vars[n] = old.vars[n]
            /\ \A n \in (DOMAIN chunk.statics) \ (DOMAIN old.vars) :
                    new.vars[n] = chunk.statics[n]
            /\ new.attrs = old.attrs
            /\ new.dims = old.dims
            /\ new.groups = old.groups

(* C13: unexpected-variable propagation, run after the first-chunk
   initialization of a year, creates exactly the chunk's variables along p_id
   alone that the container does not define yet, with the chunk's values; the
   variables initialization defined (p_id, release_date, exit_code, and
   radius, density, corey_shape_factor in 3D) are there before it runs and
   are neither re-created nor overwritten, and nothing else in the file
   changes. *)
C13_Propagation == [][PropagationStep]_vars

\* propagation has just created the variable the writer does not expect, with
\* the chunk's values, next to a release_date that differs from the chunk's
C13_Witness ==
    /\ pc = "loop"
    /\ year = current_year + 1
    /\ "windage" \in DOMAIN chunk.statics
    /\ "windage" \in DOMAIN Ds.vars
    /\ Ds.vars["windage"] = chunk.statics["windage"]
    /\ Ds.vars["release_date"] # chunk.statics["release_date"]

\* group holds what copy_dataset makes of source: the global attributes (next
\* to the description a forcing group is given), every dimension with its
\* length and its unlimited or fixed status, every variable with its
\* datatype, dimension list, attributes and data
Reproduces(source, group) ==
    /\ source.attrs \subseteq group.attrs
    /\ group.attrs \ source.attrs \subseteq {"meta_group_description"}
    /\ DOMAIN group.dims = DOMAIN source.dims
    /\ \A d \in DOMAIN source.dims :
        /\ group.dims[d].size = source.dims[d].size
        /\ group.dims[d].unlimited = source.dims[d].unlimited
    /\ DOMAIN group.vars = DOMAIN source.vars
    /\ \A n \in DOMAIN source.vars :
        /\ group.vars[n].datatype = source.vars[n].datatype
        /\ group.vars[n].dimensions = source.vars[n].dimensions
        /\ group.vars[n].attrs = source.vars[n].attrs
        /\ group.vars[n].data = source.vars[n].data

(* C14: copy_dataset reproduces the source container in the destination
   group, so in every output file whose root group has been initialized
   (it holds time) the sourcefile group and every forcing group match the
   container they were copied from, and in every 3D file that holds depth
   the configfile group matches the configfile. *)
C14_CopyReproduces ==
    \A k \in DOMAIN files :
        /\ "time" \in DOMAIN files[k].vars =>
            /\ Reproduces(SourceDataset, files[k].groups[SOURCEFILE_GROUP_NAME])
            /\ \A i \in 1 .. Len(Forcings) :
                Reproduces(ForcingMeta(Forcings[i]), files[k].groups[Forcings[i]])
        /\ "depth" \in DOMAIN files[k].vars =>
            Reproduces(ConfigDataset, files[k].groups[CONFIGFILE_GROUP_NAME])

\* a 3D file is complete: its sourcefile group holds the unlimited dimension
\* with the source's records and its configfile group the fixed one
C14_Witness ==
    /\ pc = "idle"
    /\ status = "ok"
    /\ \E k \in DOMAIN files :
        /\ "depth" \in DOMAIN files[k].vars
        /\ files[k].groups[SOURCEFILE_GROUP_NAME].dims["p_id"] =
                [size |-> Cardinality(P), unlimited |-> TRUE]
        /\ files[k].groups[CONFIGFILE_GROUP_NAME].dims["z_hd"].unlimited = FALSE
        /\ files[k].groups[CONFIGFILE_GROUP_NAME].vars # <<>>

(* C15: in a 3D append the depth offset is the length time had before the
   base append ran, so the new depth columns go to the indices of the new
   time/lon/lat columns: depth never holds more columns than time, every
   depth column that was written belongs to the chunk row of the time entry
   at its index, and once every append so far has completed, depth holds
   exactly one written column per time entry. *)
C15_DepthAligned ==
    variant = "3D" =>
        \A k \in DOMAIN files :
            "depth" \in DOMAIN files[k].vars =>
                \A p \in P :
                    LET depth == files[k].vars["depth"][p]
                        time == files[k].vars["time"]
                    IN  /\ Len(depth) <= Len(time)
                        /\ \A j \in 1 .. Len(depth) :
                            \/ depth[j] = Depth(p, Resolution * time[j])
                            \/ depth[j] = Fill /\ faults > 0
                        /\ (pc \in {"loop", "idle"} /\ faults = 0) =>
                                Len(depth) = Len(time)

\* two chunks of one year went to one 3D file without a fault: the second
\* one was appended behind the rows of the first
C15_Witness ==
    /\ variant = "3D"
    /\ pc = "idle"
    /\ status = "ok"
    /\ faults = 0
    /\ Len(ingested) = 2
    /\ Len(paths) = 1
    /\ Len(Ds.vars["depth"][1]) = Len(ingested[1]) + Len(ingested[2])
    /\ Len(ingested[2]) >= 2

\* what one step leaves alone when the chunks come in non-decreasing years:
\* the file of every year before the current one
PriorYearsStep ==
    (NonDecreasingYears(ingested') /\ current_year # None) =>
        \A y \in Years :
            (y < current_year /\ <<basename, y>> \in DOMAIN files) =>
                /\ <<basename, y>> \in DOMAIN files'
                /\ files'[<<basename, y>>] = files[<<basename, y>>]

(* C16: under non-decreasing years of ingestion, once the current year has
   advanced past a year Y, no later step of any call removes, re-creates or
   modifies the file of Y, the steps of a call that ends in an exception
   while it writes a later year included. *)
C16_PriorYearsUntouched == [][PriorYearsStep]_vars

\* a call that was writing a later year ended in an exception, and the file
\* of an earlier year is complete
C16_Witness ==
    /\ pc = "idle"
    /\ status = "fault"
    /\ NonDecreasingYears(ingested)
    /\ Len(ingested) >= 2
    /\ \E y \in Years :
        /\ y < current_year
        /\ <<basename, y>> \in DOMAIN files
        /\ "title" \in files[<<basename, y>>].attrs
        /\ Len(files[<<basename, y>>].vars["time"]) > 0

\* current_year is unset exactly when no path is recorded, and otherwise the
\* last path is the current year's
CurrentYearIsLastPath ==
    /\ current_year = None <=> paths = <<>>
    /\ paths # <<>> => paths[Len(paths)] = <<basename, current_year>>

\* a step changes no file but the one at the current year's path, and the
\* writer holds a handle on an output file only while a path is recorded
WritesLastPathStep ==
    /\ \A k \in (DOMAIN files) \cup (DOMAIN files') :
        (k \notin DOMAIN files \/ k \notin DOMAIN files' \/ files'[k] # files[k]) =>
            /\ current_year # None
            /\ k = <<basename, current_year>>
            /\ UNCHANGED <<current_year, paths>>
    /\ "ds" \in open' => current_year' # None

(* C17: in every reachable writer state current_year is unset exactly when
   the path list is empty, and otherwise the last path is
   {basename}_{current_year}.nc in the output directory; every file write of
   an ingest (initialization, propagation, append) targets that last path. *)
C17_LastPathIsCurrentYear == [](CurrentYearIsLastPath) /\ [][WritesLastPathStep]_vars

\* the writer is appending to the file of the second path it recorded
C17_Witness ==
    /\ pc = "app_lat"
    /\ Len(paths) = 2
    /\ current_year = FirstYear + 1
    /\ TimeLen(Ds) > start_t
    /\ start_t > 0

\* the first-chunk initialization of the container ran to its end: the base
\* class wrote the root group, and the subclass its title (and, in 3D, the
\* configfile group, the particle statics and depth)
InitializationComplete(ds) ==
    /\ {"p_id", "release_date", "exit_code", "time", "lon", "lat"} \subseteq DOMAIN ds.vars
    /\ "title" \in ds.attrs
    /\ variant = "3D" =>
        /\ {"radius", "density", "corey_shape_factor", "depth"} \subseteq DOMAIN ds.vars
        /\ CONFIGFILE_GROUP_NAME \in DOMAIN ds.groups
        /\ ds.groups[CONFIGFILE_GROUP_NAME] # EmptyContainer

(* C18 (as claimed): an append is only ever performed on a container whose
   first-chunk initialization for the current year completed: whenever
   _append_chunk has written to the file at the last path, that file is
   completely initialized. *)
C18_AppendOnlyToInitialized ==
    pc \in {"app_lon", "app_lat", "app_exit_code", "app3_open2", "app3_depth"} =>
        InitializationComplete(Ds)

\* the number of the call that created the file of year y when the chunks
\* came in non-decreasing years: the first one whose range of years holds y
CreatingCall(y) ==
    CHOOSE i \in 1 .. Len(ingested) :
        /\ y \in YearOf(ingested[i][1]) .. YearOf(ingested[i][Len(ingested[i])])
        /\ \A h \in 1 .. i - 1 :
            y \notin YearOf(ingested[h][1]) .. YearOf(ingested[h][Len(ingested[h])])

\* a step inside _append_chunk creates no variable and leaves every
\* per-particle variable other than exit_code as it is stored
AppendKeepsStaticsStep ==
    pc \in AppendPcs =>
        /\ DOMAIN files'[LastPath].vars = DOMAIN files[LastPath].vars
        /\ \A n \in DOMAIN files[LastPath].vars \ {"exit_code", "time", "lon", "lat", "depth"} :
            files'[LastPath].vars[n] = files[LastPath].vars[n]

\* a propagated variable holds the values of the chunk that created the file
PropagatedIsFromCreation ==
    (NonDecreasingYears(ingested) /\ faults = 0) =>
        \A y \in Years :
            (<<basename, y>> \in DOMAIN files
                /\ "windage" \in DOMAIN files[<<basename, y>>].vars) =>
                    files[<<basename, y>>].vars["windage"] =
                        [p \in P |-> Windage(p, CreatingCall(y))]

(* C19: per-particle variables other than exit_code are written only when a
   year's file is first created: no step of an append creates a variable or
   changes p_id, release_date, the 3D statics or a propagated unexpected
   variable, so (for chunks in non-decreasing years and no exception) a
   propagated variable always holds the values of the chunk that created
   the file, whatever later chunks of the year carry. *)
C19_StaticsOnlyAtCreation ==
    [](PropagatedIsFromCreation) /\ [][AppendKeepsStaticsStep]_vars

\* the second chunk of a year carried a per-particle variable the first one
\* did not have: the year's file does not hold it after the append
C19_Witness ==
    /\ pc = "idle"
    /\ status = "ok"
    /\ faults = 0
    /\ Len(ingested) = 2
    /\ Len(paths) = 1
    /\ "windage" \in DOMAIN chunk.statics
    /\ "windage" \notin DOMAIN Ds.vars
    /\ TimeLen(Ds) = Len(ingested[1]) + Len(ingested[2])

====
